---- MODULE Spec2Model ----
(***************************************************************************)
(* serde-poly: the two derive macros of serde-poly-macro                   *)
(* (#[derive(Poly)] and #[derive(OwnablePoly)]) and the runtime            *)
(* OwnablePoly conversions of serde_poly.                                   *)
(*                                                                         *)
(* A macro is a pure function from a parsed declaration (syn::DeriveInput) *)
(* to a token stream.  The declaration is the state `input`; every macro   *)
(* is one action that applies the whole expansion to it.  The generated    *)
(* into_owned is run on runtime values by a third action.                  *)
(***************************************************************************)
EXTENDS Integers, Sequences, FiniteSets, TLC

VARIABLES
    input,      \* the declaration: the DeriveInput handed to its derive macros
    poly,       \* what #[derive(Poly)] produced for it
    ownable,    \* what #[derive(OwnablePoly)] produced for it
    values      \* a runtime value of the declared type, followed by the result
                \* of each successive into_owned call on it

vars == <<input, poly, ownable, values>>

(***************************************************************************)
(* Bounds of the model                                                     *)
(***************************************************************************)
MaxParams == 3          \* generic parameters of a declaration
MaxAttrs == 1           \* attributes on a declaration
MaxNested == 2          \* options inside one #[poly(...)] list
MaxFields == 2          \* fields of a struct
MaxVariants == 2        \* variants of an enum
MaxCalls == 2           \* successive into_owned calls on one value

SeqsUpTo(S, n) == UNION {[1..k -> S] : k \in 0..n}

Distinct(s) == \A i, j \in 1..Len(s) : s[i] = s[j] => i = j

Indices(s) == [i \in 1..Len(s) |-> i]

(***************************************************************************)
(* syn::DeriveInput                                                        *)
(***************************************************************************)
Param(kind, ident, bounds) == [kind |-> kind, ident |-> ident, bounds |-> bounds]

GenericParams ==
    { Param("Lifetime", "a", ""), Param("Lifetime", "b", ""), Param("Lifetime", "c", ""),
      Param("Type", "T", "Clone"), Param("Const", "LEN", "usize") }

ParamLists == {s \in SeqsUpTo(GenericParams, MaxParams) : Distinct(s)}

WhereClauses == { <<>>, <<"Self: Sized">> }

Generics(params, where_clause) == [params |-> params, where_clause |-> where_clause]

NestedMeta(key, lit, value) == [key |-> key, lit |-> lit, value |-> value]

NestedMetas ==
    { NestedMeta("name", "Str", "BorrowedAlias"),
      NestedMeta("name", "Str", "Other"),
      NestedMeta("name", "Int", "5"),
      NestedMeta("rename", "None", "") }

Attribute(path, meta, nested) == [path |-> path, meta |-> meta, nested |-> nested]

Attributes ==
    { Attribute("serde", "List", <<>>),
      Attribute("poly", "Path", <<>>),
      Attribute("poly", "NameValue", <<>>) }
    \cup { Attribute("poly", "List", n) : n \in SeqsUpTo(NestedMetas, MaxNested) }

AttrLists == SeqsUpTo(Attributes, MaxAttrs)

Idents == {"Borrowed", "Owned"}

Visibilities == {"", "pub"}

(***************************************************************************)
(* Spans: the token an error is located at.                                *)
(***************************************************************************)
Span(kind, pos, sub) == [kind |-> kind, pos |-> pos, sub |-> sub]

NoSpan == Span("none", 0, 0)

\* syn::Result
Ok(tokens, checks) ==
    [ok |-> TRUE, tokens |-> tokens, span |-> NoSpan, message |-> "", checks |-> checks]

Err(span, message, checks) ==
    [ok |-> FALSE, tokens |-> <<>>, span |-> span, message |-> message, checks |-> checks]

(***************************************************************************)
(* parse_poly_name                                                         *)
(***************************************************************************)
NoName == [set |-> FALSE, ident |-> "", span |-> NoSpan]

\* a closure that takes every option for the name option
IsNameOptionAny(meta) == TRUE

\* meta.path.is_ident("name")
IsNameOption(meta) == meta.key = "name"

\* the closure handed to attr.parse_nested_meta, run over the options of the
\* attribute at position i from option j on; acc is (provided, span)
RECURSIVE parse_nested_meta(_, _, _, _)
parse_nested_meta(nested, i, j, acc) ==
    IF j > Len(nested) THEN [ok |-> TRUE, acc |-> acc, span |-> NoSpan]
    ELSE LET meta == nested[j] IN
         IF IsNameOption(meta)
         THEN IF meta.lit = "Str"
              THEN parse_nested_meta(nested, i, j + 1,
                       [set |-> TRUE, ident |-> meta.value, span |-> Span("lit", i, j)])
              ELSE [ok |-> FALSE, acc |-> acc, span |-> Span("lit", i, j)]
         ELSE [ok |-> FALSE, acc |-> acc, span |-> Span("meta_path", i, j)]

RECURSIVE parse_poly_attrs(_, _, _)
parse_poly_attrs(attrs, i, acc) ==
    IF i > Len(attrs) THEN [ok |-> TRUE, acc |-> acc, span |-> NoSpan, message |-> ""]
    ELSE LET attr == attrs[i] IN
         IF attr.path # "poly" THEN parse_poly_attrs(attrs, i + 1, acc)
         ELSE CASE attr.meta = "Path" -> parse_poly_attrs(attrs, i + 1, acc)
                [] attr.meta = "List" ->
                     LET r == parse_nested_meta(attr.nested, i, 1, acc) IN
                     IF r.ok THEN parse_poly_attrs(attrs, i + 1, r.acc)
                     ELSE [ok |-> FALSE, acc |-> acc, span |-> r.span,
                           message |-> IF r.span.kind = "lit"
                                       THEN "expected string literal"
                                       ELSE "unsupported poly attribute"]
                [] attr.meta = "NameValue" ->
                     [ok |-> FALSE, acc |-> acc, span |-> Span("attr", i, 0),
                      message |-> "unsupported poly attribute"]

\* a default name built with another suffix
DefaultPolyIdentTag(original) == original \o "Tag"

\* format_ident!("{}Poly", original)
DefaultPolyIdent(original) == original \o "Poly"

\* a resolver that drops the name the attribute provides
PolyIdentIgnoringAttr(provided, original) == DefaultPolyIdent(original)

\* the generated name: the one provided by the attribute, else the default
PolyIdent(provided, original) ==
    IF provided.set THEN provided.ident ELSE DefaultPolyIdent(original)

\* a resolver that falls back to the default name when an attribute does
\* not parse
parse_poly_name_or_default(attrs, original) ==
    [ok |-> TRUE, span |-> NoSpan, message |-> "",
     ident |-> DefaultPolyIdent(original), attr_span |-> NoSpan]

parse_poly_name(attrs, original) ==
    LET r == parse_poly_attrs(attrs, 1, NoName) IN
    IF ~r.ok THEN [ok |-> FALSE, span |-> r.span, message |-> r.message,
                   ident |-> "", attr_span |-> NoSpan]
    ELSE [ok |-> TRUE, span |-> NoSpan, message |-> "",
          ident |-> PolyIdent(r.acc, original),
          attr_span |-> r.acc.span]

(***************************************************************************)
(* expand_poly                                                             *)
(***************************************************************************)
\* generics.params filtered to the lifetimes, each with its span
LifetimeParams(params) ==
    LET pos == SelectSeq(Indices(params), LAMBDA i : params[i].kind = "Lifetime") IN
    [k \in 1..Len(pos) |-> [ident |-> params[pos[k]].ident,
                            span |-> Span("lifetime", pos[k], 0)]]

\* a generic argument naming a parameter: 'a, T or LEN
TyArg(param) == [kind |-> param.kind, ident |-> param.ident]

DeArg == [kind |-> "Lifetime", ident |-> "de"]

TypeOf(ident, args) == [ident |-> ident, args |-> args]

SelfType == TypeOf("Self", <<>>)

\* generics.split_for_impl().1
TyGenerics(params) == [i \in 1..Len(params) |-> TyArg(params[i])]

\* a Poly type that keeps the type parameters only
PolyParamsTypesOnly(params) == SelectSeq(params, LAMBDA p : p.kind = "Type")

\* the parameters kept on the Poly type: every parameter but the lifetimes
PolyParams(params) == SelectSeq(params, LAMBDA p : p.kind # "Lifetime")

\* a Restore target that assumes the lifetime is the first parameter
OutTyArgsLifetimeFirst(params) == << DeArg >> \o TyGenerics(PolyParams(params))

\* the Restore mapping's target: the schema's arguments with 'de at the
\* lifetime's position
OutTyArgs(params) ==
    [i \in 1..Len(params) |->
        IF params[i].kind = "Lifetime" THEN DeArg ELSE TyArg(params[i])]

\* a Poly tuple struct with a field per type parameter and none per const
PhantomFieldsTypesOnly(poly_params, vis) ==
    LET tys == SelectSeq(poly_params, LAMBDA p : p.kind = "Type") IN
    [i \in 1..Len(tys) |->
        [vis |-> vis, ty |-> "PhantomData<fn() -> " \o tys[i].ident \o ">"]]

\* one field of the Poly tuple struct per retained parameter
PhantomFields(poly_params, vis) ==
    [i \in 1..Len(poly_params) |->
        [vis |-> vis,
         ty |-> IF poly_params[i].kind = "Type"
                THEN "PhantomData<fn() -> " \o poly_params[i].ident \o ">"
                ELSE "PhantomData<fn() -> ()>"]]

\* an error located at the first lifetime parameter
OffendingFirst(lifetime_params) == lifetime_params[1]

\* let offending = &lifetime_params[1]
Offending(lifetime_params) == lifetime_params[2]

\* an expansion that never checks where the name option is used
NameWithoutLifetimeUnchecked(has_lifetime, attr_span) == FALSE

\* !has_lifetime and poly_name.attr_span is Some
NameWithoutLifetime(has_lifetime, attr_span) == ~has_lifetime /\ attr_span # NoSpan

\* an Erase mapping that names the Poly type even without a lifetime
SerializeOutAlwaysPoly(has_lifetime, poly_ident, poly_ty_args) ==
    TypeOf(poly_ident, poly_ty_args)

\* type Out of the SerializePoly impl
SerializeOut(has_lifetime, poly_ident, poly_ty_args) ==
    IF has_lifetime THEN TypeOf(poly_ident, poly_ty_args) ELSE SelfType

ImplItem(trait, impl_generics, self_ty, where_clause, out) ==
    [item |-> "impl", trait |-> trait, impl_generics |-> impl_generics,
     self_ty |-> self_ty, where_clause |-> where_clause, out |-> out]

StructItem(vis, ident, generics_decl, fields) ==
    [item |-> "struct", vis |-> vis, ident |-> ident,
     generics_decl |-> generics_decl, fields |-> fields]

\* an expansion that takes a union for a struct
IsUnionNever(data) == FALSE

\* if let syn::Data::Union(data_union) = &input.data
IsUnion(data) == data = "union"

expand_poly(in) ==
    IF IsUnion(in.data)
    THEN Err(Span("union_token", 0, 0), "Poly derive does not support unions", <<"union">>)
    ELSE
    LET poly_name == parse_poly_name(in.attrs, in.ident) IN
    IF ~poly_name.ok
    THEN Err(poly_name.span, poly_name.message, <<"union", "attrs">>)
    ELSE
    LET params == in.generics.params
        lifetime_params == LifetimeParams(params)
    IN
    IF Len(lifetime_params) > 1
    THEN Err(Offending(lifetime_params).span, "Poly derive supports at most one lifetime parameter",
             <<"union", "attrs", "lifetimes">>)
    ELSE
    LET has_lifetime == Len(lifetime_params) # 0 IN
    IF NameWithoutLifetime(has_lifetime, poly_name.attr_span)
    THEN Err(poly_name.attr_span,
             "poly(name = \"...\") is only valid for types with a single lifetime parameter",
             <<"union", "attrs", "lifetimes", "name">>)
    ELSE
    LET poly_ident == poly_name.ident
        poly_params == PolyParams(params)
        poly_ty_args == TyGenerics(poly_params)
        serialize_out == SerializeOut(has_lifetime, poly_ident, poly_ty_args)
        out_ty_args == IF has_lifetime THEN OutTyArgs(params) ELSE <<>>
        deserialize_out == IF has_lifetime THEN TypeOf(in.ident, out_ty_args) ELSE SelfType
        poly_items ==
            IF has_lifetime
            THEN << StructItem(in.vis, poly_ident, poly_params,
                               PhantomFields(poly_params, in.vis)),
                    ImplItem("::serde::Serialize", poly_params,
                             TypeOf(poly_ident, poly_ty_args), <<>>, SelfType) >>
            ELSE <<>>
        deserialize_impl ==
            IF has_lifetime
            THEN ImplItem("::serde_poly::DeserializePoly", poly_params,
                          TypeOf(poly_ident, poly_ty_args), <<>>, deserialize_out)
            ELSE ImplItem("::serde_poly::DeserializePoly", params,
                          TypeOf(in.ident, TyGenerics(params)), in.generics.where_clause,
                          deserialize_out)
        serialize_impl ==
            ImplItem("::serde_poly::SerializePoly", params,
                     TypeOf(in.ident, TyGenerics(params)), in.generics.where_clause,
                     serialize_out)
    IN Ok(poly_items \o <<deserialize_impl, serialize_impl>>,
          <<"union", "attrs", "lifetimes", "name">>)

\* syn::Error::to_compile_error
CompileError(span, message) == [item |-> "compile_error", span |-> span, message |-> message]

\* what the macro hands back to the compiler: the tokens, or the error as a
\* compile_error! invocation
derive_poly(in) ==
    LET r == expand_poly(in) IN
    [done |-> TRUE, ok |-> r.ok, span |-> r.span, message |-> r.message,
     checks |-> r.checks,
     tokens |-> IF r.ok THEN r.tokens ELSE << CompileError(r.span, r.message) >>]

NotDerived ==
    [done |-> FALSE, ok |-> FALSE, span |-> NoSpan, message |-> "", checks |-> <<>>,
     tokens |-> <<>>]

(***************************************************************************)
(* syn::Type, as far as type_contains_any_lifetime inspects it             *)
(***************************************************************************)
NoArguments == [kind |-> "None"]

AngleBracketed(args) == [kind |-> "AngleBracketed", args |-> args]

Parenthesized(inputs, output) ==
    [kind |-> "Parenthesized", inputs |-> inputs, output |-> output]

LifetimeArg(ident) == [kind |-> "Lifetime", ident |-> ident]

TypeArg(ty) == [kind |-> "Type", ty |-> ty]

AssocTypeArg(ty) == [kind |-> "AssocType", ty |-> ty]

ConstraintArg(bounds) == [kind |-> "Constraint", bounds |-> bounds]

Segment(ident, arguments) == [ident |-> ident, arguments |-> arguments]

TypePath(segments) == [variant |-> "Path", segments |-> segments]

TypeReference(lifetime, elem) ==
    [variant |-> "Reference", lifetime |-> lifetime, elem |-> elem]

TypeTuple(elems) == [variant |-> "Tuple", elems |-> elems]

\* Array, Ptr, Slice, Paren, Group: one element type
TypeElem(variant, elem) == [variant |-> variant, elem |-> elem]

\* <qself as Trait>::Assoc: a path with a qualified self type
TypeQPath(qself, segments) == [variant |-> "Path", qself |-> qself, segments |-> segments]

\* syn::TypeParamBound: a lifetime, or a trait given by its path
LifetimeBound(ident) == [kind |-> "Lifetime", ident |-> ident]

TraitBound(segments) == [kind |-> "Trait", segments |-> segments]

\* dyn Bound + Bound
TypeTraitObject(bounds) == [variant |-> "TraitObject", bounds |-> bounds]

\* impl Bound + Bound
TypeImplTrait(bounds) == [variant |-> "ImplTrait", bounds |-> bounds]

\* syn::ReturnType
ReturnDefault == [some |-> FALSE]

ReturnTypeOf(ty) == [some |-> TRUE, ty |-> ty]

\* fn(inputs) -> output
TypeBareFn(inputs, output) == [variant |-> "BareFn", inputs |-> inputs, output |-> output]

\* a type written as one path segment: u32, Cow<'a, str>, Vec<T>
Named(ident, args) ==
    TypePath(<< Segment(ident, IF args = <<>> THEN NoArguments ELSE AngleBracketed(args)) >>)

AnyLifetime(ident, lifetimes) == \E k \in 1..Len(lifetimes) : lifetimes[k].ident = ident

RECURSIVE type_contains_any_lifetime(_, _)
\* an argument test that looks at lifetime arguments only
ArgContainsLifetimeOnly(arg, lifetimes) ==
    arg.kind = "Lifetime" /\ AnyLifetime(arg.ident, lifetimes)

ArgContains(arg, lifetimes) ==
    CASE arg.kind = "Lifetime" -> AnyLifetime(arg.ident, lifetimes)
      [] arg.kind = "Type" -> type_contains_any_lifetime(arg.ty, lifetimes)
      [] arg.kind = "AssocType" -> type_contains_any_lifetime(arg.ty, lifetimes)
      [] arg.kind = "Constraint" ->
            \E b \in 1..Len(arg.bounds) :
                /\ arg.bounds[b].kind = "Lifetime"
                /\ AnyLifetime(arg.bounds[b].ident, lifetimes)
      [] OTHER -> FALSE

SegmentContains(segment, lifetimes) ==
    LET a == segment.arguments IN
    CASE a.kind = "AngleBracketed" ->
            \E i \in 1..Len(a.args) : ArgContains(a.args[i], lifetimes)
      [] a.kind = "Parenthesized" ->
            \/ \E i \in 1..Len(a.inputs) : type_contains_any_lifetime(a.inputs[i], lifetimes)
            \/ /\ a.output.some
               /\ type_contains_any_lifetime(a.output.ty, lifetimes)
      [] OTHER -> FALSE

type_contains_any_lifetime(ty, lifetimes) ==
    CASE ty.variant = "Reference" ->
            \/ /\ ty.lifetime # ""
               /\ AnyLifetime(ty.lifetime, lifetimes)
            \/ type_contains_any_lifetime(ty.elem, lifetimes)
      [] ty.variant = "Path" ->
            \E s \in 1..Len(ty.segments) : SegmentContains(ty.segments[s], lifetimes)
      [] ty.variant = "Tuple" ->
            \E e \in 1..Len(ty.elems) : type_contains_any_lifetime(ty.elems[e], lifetimes)
      [] ty.variant \in {"Array", "Ptr", "Slice", "Paren", "Group"} ->
            type_contains_any_lifetime(ty.elem, lifetimes)
      [] OTHER -> FALSE

\* whether one of the lifetimes is written anywhere in the type.  With deep
\* the whole syntax tree is searched; without it the search leaves out what
\* type_contains_any_lifetime never opens: trait objects, impl Trait,
\* function pointers, qualified self types and the trait bounds of
\* constraints.
RECURSIVE Occurs(_, _, _)
RECURSIVE SegmentsOccur(_, _, _)
BoundOccurs(bound, idents, deep) ==
    IF bound.kind = "Lifetime" THEN bound.ident \in idents
    ELSE deep /\ SegmentsOccur(bound.segments, idents, deep)

ArgOccurs(arg, idents, deep) ==
    CASE arg.kind = "Lifetime" -> arg.ident \in idents
      [] arg.kind \in {"Type", "AssocType"} -> Occurs(arg.ty, idents, deep)
      [] arg.kind = "Constraint" ->
            \E b \in 1..Len(arg.bounds) : BoundOccurs(arg.bounds[b], idents, deep)
      [] OTHER -> FALSE

SegmentsOccur(segments, idents, deep) ==
    \E s \in 1..Len(segments) :
        LET a == segments[s].arguments IN
        CASE a.kind = "AngleBracketed" ->
                \E i \in 1..Len(a.args) : ArgOccurs(a.args[i], idents, deep)
          [] a.kind = "Parenthesized" ->
                \/ \E i \in 1..Len(a.inputs) : Occurs(a.inputs[i], idents, deep)
                \/ a.output.some /\ Occurs(a.output.ty, idents, deep)
          [] OTHER -> FALSE

Occurs(ty, idents, deep) ==
    CASE ty.variant = "Reference" ->
            ty.lifetime \in idents \/ Occurs(ty.elem, idents, deep)
      [] ty.variant = "Path" ->
            \/ deep /\ "qself" \in DOMAIN ty /\ Occurs(ty.qself, idents, deep)
            \/ SegmentsOccur(ty.segments, idents, deep)
      [] ty.variant = "Tuple" ->
            \E e \in 1..Len(ty.elems) : Occurs(ty.elems[e], idents, deep)
      [] ty.variant \in {"Array", "Ptr", "Slice", "Paren", "Group"} ->
            Occurs(ty.elem, idents, deep)
      [] ty.variant \in {"TraitObject", "ImplTrait"} ->
            deep /\ \E b \in 1..Len(ty.bounds) : BoundOccurs(ty.bounds[b], idents, deep)
      [] ty.variant = "BareFn" ->
            deep /\ (\/ \E i \in 1..Len(ty.inputs) : Occurs(ty.inputs[i], idents, deep)
                     \/ ty.output.some /\ Occurs(ty.output.ty, idents, deep))
      [] OTHER -> FALSE

(***************************************************************************)
(* Field types of the declarations the model is run on                     *)
(***************************************************************************)
TyStr == Named("str", <<>>)

TyU32 == Named("u32", <<>>)

TyT == Named("T", <<>>)

TyCow == Named("Cow", << LifetimeArg("a"), TypeArg(TyStr) >>)

\* Cow<'b, str>, for declarations with a second lifetime
TyCowB == Named("Cow", << LifetimeArg("b"), TypeArg(TyStr) >>)

TyVecCow == Named("Vec", << TypeArg(TyCow) >>)

TySimpleExample == Named("SimpleExample", << LifetimeArg("a") >>)

TyOptionSimple == Named("Option", << TypeArg(TySimpleExample) >>)

TyResultCow == Named("Result", << TypeArg(TyCow), TypeArg(TyU32) >>)

TyRefStr == TypeReference("a", TyStr)

\* Result<String, Cow<'a, str>>: the lifetime on the error side
TyResultErrCow == Named("Result", << TypeArg(Named("String", <<>>)), TypeArg(TyCow) >>)

TyVecOptionCow == Named("Vec", << TypeArg(Named("Option", << TypeArg(TyCow) >>)) >>)

FieldTypes == {TyU32, TyT, TyCow, TyVecCow, TyRefStr}

\* types that carry 'a in each position a type can hold a lifetime, and
\* types that carry another lifetime or none
AnalyzerTypes ==
    { TypeTuple(<< TyU32, TyRefStr >>),
      TypeElem("Array", TyRefStr),
      TypeElem("Slice", TyCow),
      TypeElem("Ptr", TyRefStr),
      TypeElem("Paren", TyRefStr),
      TypeElem("Group", TyCow),
      TypeReference("", TypeElem("Slice", TyRefStr)),
      TypeReference("static", TyStr),
      TypeReference("b", TyStr),
      TypePath(<< Segment("std", NoArguments), Segment("borrow", NoArguments),
                  Segment("Cow", AngleBracketed(<< LifetimeArg("a"), TypeArg(TyStr) >>)) >>),
      Named("Iter", << AssocTypeArg(TyRefStr) >>),
      Named("Iter", << ConstraintArg(<< LifetimeBound("a") >>) >>),
      Named("Iter", << ConstraintArg(<< TraitBound(<< Segment("Into",
                          AngleBracketed(<< TypeArg(TyRefStr) >>)) >>) >>) >>),
      TypePath(<< Segment("Fn", Parenthesized(<< TyRefStr >>, ReturnDefault)) >>),
      TypePath(<< Segment("Fn", Parenthesized(<< TyU32 >>, ReturnTypeOf(TyCow))) >>),
      Named("Box", << TypeArg(TypeTraitObject(<< TraitBound(<< Segment("Debug", NoArguments) >>),
                                                 LifetimeBound("a") >>)) >>),
      TypeImplTrait(<< TraitBound(<< Segment("Into", AngleBracketed(<< TypeArg(TyCow) >>)) >>) >>),
      TypeBareFn(<< TyRefStr >>, ReturnTypeOf(TyU32)),
      TypeBareFn(<< TyU32 >>, ReturnTypeOf(TyRefStr)),
      TypeBareFn(<< TyU32 >>, ReturnDefault),
      TypeQPath(TyCow, << Segment("ToOwned", NoArguments), Segment("Owned", NoArguments) >>),
      Named("Vec", << TypeArg(TypeTuple(<< TypeElem("Array", TyOptionSimple), TyU32 >>)) >>) }

Field(ident, ty) == [ident |-> ident, ty |-> ty]

Fields(kind, list) == [kind |-> kind, list |-> list]

\* syn::Fields over a list of types; named fields are called f0, f1, ...
FieldsOf(kind, tys) ==
    Fields(kind, [i \in 1..Len(tys) |->
                    Field(IF kind = "Named" THEN "f" \o ToString(i - 1) ELSE "", tys[i])])

FieldShapes(types, n) ==
    { FieldsOf(kind, tys) : kind \in {"Named", "Unnamed"}, tys \in SeqsUpTo(types, n) }
    \cup { Fields("Unit", <<>>) }

\* further struct shapes, over the other impls of OwnablePoly
FieldSamples ==
    { FieldsOf("Named", <<TyOptionSimple>>),
      FieldsOf("Unnamed", <<TyResultCow, TyU32>>),
      FieldsOf("Named", <<TyVecCow, TyOptionSimple, TyResultCow>>),
      FieldsOf("Unnamed", <<TySimpleExample, TyT>>),
      FieldsOf("Named", <<TyCow, TyCowB>>),
      FieldsOf("Unnamed", <<TyResultErrCow, TyVecOptionCow>>) }
    \cup { FieldsOf("Named", <<ty>>) : ty \in AnalyzerTypes }

Variant(ident, fields) == [ident |-> ident, fields |-> fields]

\* the payload shapes of the enums of tests/derive_ownable_poly.rs
VariantShapes ==
    { Fields("Unit", <<>>),
      FieldsOf("Unnamed", <<TyCow>>),
      FieldsOf("Unnamed", <<TyU32>>),
      FieldsOf("Unnamed", <<TyT>>),
      FieldsOf("Unnamed", <<TyVecCow>>),
      FieldsOf("Unnamed", <<TyCow, TyU32>>),
      FieldsOf("Named", <<TyCow, TyU32>>),
      FieldsOf("Named", <<TyCow, TyT>>) }

\* enums; the variants are called V0, V1, ...
VariantLists ==
    { [i \in 1..Len(shapes) |-> Variant("V" \o ToString(i - 1), shapes[i])] :
        shapes \in SeqsUpTo(VariantShapes, MaxVariants) }

\* how a field is written after `self.` or in a struct expression
MemberKey(fields, i) ==
    IF fields.kind = "Named" THEN fields.list[i].ident ELSE ToString(i - 1)

MemberKeys(fields) == {MemberKey(fields, i) : i \in 1..Len(fields.list)}

DeclType(fields, m) ==
    fields.list[CHOOSE i \in 1..Len(fields.list) : MemberKey(fields, i) = m].ty

(***************************************************************************)
(* expand_ownable_poly                                                     *)
(***************************************************************************)
FieldInit(name, source, convert) == [name |-> name, source |-> source, owned |-> convert]

\* a struct expression that passes every field through
generate_field_transformations_no_convert(fields, lifetime_params) ==
    [kind |-> fields.kind,
     inits |-> [i \in 1..Len(fields.list) |->
                  FieldInit(fields.list[i].ident, MemberKey(fields, i), FALSE)]]

\* the struct expression body: one initialiser per field, in field order
generate_field_transformations(fields, lifetime_params) ==
    [kind |-> fields.kind,
     inits |-> [i \in 1..Len(fields.list) |->
                  FieldInit(fields.list[i].ident, MemberKey(fields, i),
                            type_contains_any_lifetime(fields.list[i].ty, lifetime_params))]]

\* the names a variant's pattern binds its fields to
BindingName(fields, i) ==
    IF fields.kind = "Named" THEN fields.list[i].ident ELSE "field_" \o ToString(i - 1)

\* a match arm that passes every bound field through
MatchArmNoConvert(variant, lifetime_params) ==
    LET fields == variant.fields IN
    [pat |-> [variant |-> variant.ident, kind |-> fields.kind,
              bindings |-> [i \in 1..Len(fields.list) |-> BindingName(fields, i)]],
     variant |-> variant.ident,
     kind |-> fields.kind,
     inits |-> [i \in 1..Len(fields.list) |->
                  FieldInit(fields.list[i].ident, BindingName(fields, i), FALSE)]]

MatchArm(variant, lifetime_params) ==
    LET fields == variant.fields IN
    [pat |-> [variant |-> variant.ident, kind |-> fields.kind,
              bindings |-> [i \in 1..Len(fields.list) |-> BindingName(fields, i)]],
     variant |-> variant.ident,
     kind |-> fields.kind,
     inits |-> [i \in 1..Len(fields.list) |->
                  FieldInit(fields.list[i].ident, BindingName(fields, i),
                            type_contains_any_lifetime(fields.list[i].ty, lifetime_params))]]

\* a match whose arms all rebuild the first variant
generate_enum_transformation_first_variant(enum_ident, variants, lifetime_params) ==
    [kind |-> "match", ident |-> enum_ident,
     arms |-> [v \in 1..Len(variants) |->
                 [MatchArm(variants[v], lifetime_params) EXCEPT
                     !.variant = variants[1].ident]]]

\* match self { arms }: one arm per variant, in declaration order
generate_enum_transformation(enum_ident, variants, lifetime_params) ==
    [kind |-> "match", ident |-> enum_ident,
     arms |-> [v \in 1..Len(variants) |-> MatchArm(variants[v], lifetime_params)]]

\* the field types the expansion hands to type_contains_any_lifetime, in order
RECURSIVE AnalyzedVariants(_, _)
AnalyzedVariants(variants, v) ==
    IF v > Len(variants) THEN <<>>
    ELSE [i \in 1..Len(variants[v].fields.list) |-> variants[v].fields.list[i].ty]
         \o AnalyzedVariants(variants, v + 1)

\* an owned type that makes only the first lifetime 'static
OwnedTyGenericsFirstOnly(params) ==
    LET first == CHOOSE i \in 1..Len(params) :
                    /\ params[i].kind = "Lifetime"
                    /\ \A j \in 1..(i - 1) : params[j].kind # "Lifetime"
    IN [i \in 1..Len(params) |->
           IF i = first THEN LifetimeArg("static") ELSE TyArg(params[i])]

\* generics with every lifetime replaced by 'static, as type arguments
OwnedTyGenerics(params) ==
    [i \in 1..Len(params) |->
        IF params[i].kind = "Lifetime" THEN LifetimeArg("static") ELSE TyArg(params[i])]

OwnableItem(impl_generics, self_ty, where_clause, owned_ty, body) ==
    [item |-> "impl", trait |-> "::serde_poly::OwnablePoly",
     impl_generics |-> impl_generics, self_ty |-> self_ty,
     where_clause |-> where_clause, owned |-> owned_ty, body |-> body]

OwnableOk(tokens, analyzed) ==
    [ok |-> TRUE, tokens |-> tokens, span |-> NoSpan, message |-> "", analyzed |-> analyzed]

OwnableErr(span, message, analyzed) ==
    [ok |-> FALSE, tokens |-> <<>>, span |-> span, message |-> message,
     analyzed |-> analyzed]

\* an expansion without the early return for types without lifetimes
IsIdentityCaseNever(lifetime_params) == FALSE

\* lifetime_params.is_empty(): the type needs no conversion
IsIdentityCase(lifetime_params) == Len(lifetime_params) = 0

expand_ownable_poly(in) ==
    LET params == in.generics.params
        lifetime_params == LifetimeParams(params)
        self_ty == TypeOf(in.ident, TyGenerics(params))
    IN
    IF IsIdentityCase(lifetime_params)
    THEN OwnableOk(<< OwnableItem(params, self_ty, in.generics.where_clause, SelfType,
                                   [kind |-> "self"]) >>, <<>>)
    ELSE
    LET owned_ty == TypeOf(in.ident, OwnedTyGenerics(params)) IN
    CASE in.data = "struct" ->
            OwnableOk(<< OwnableItem(params, self_ty, in.generics.where_clause, owned_ty,
                          [kind |-> "struct", ident |-> in.ident,
                           fields |-> generate_field_transformations(in.fields,
                                                                     lifetime_params)]) >>,
                      [i \in 1..Len(in.fields.list) |-> in.fields.list[i].ty])
      [] in.data = "enum" ->
            OwnableOk(<< OwnableItem(params, self_ty, in.generics.where_clause, owned_ty,
                          generate_enum_transformation(in.ident, in.variants,
                                                       lifetime_params)) >>,
                      AnalyzedVariants(in.variants, 1))
      [] in.data = "union" ->
            OwnableErr(Span("union_token", 0, 0),
                       "OwnablePoly derive does not support unions", <<>>)

derive_ownable_poly(in) ==
    LET r == expand_ownable_poly(in) IN
    [done |-> TRUE, ok |-> r.ok, span |-> r.span, message |-> r.message,
     analyzed |-> r.analyzed,
     tokens |-> IF r.ok THEN r.tokens ELSE << CompileError(r.span, r.message) >>]

NotDerivedOwnable ==
    [done |-> FALSE, ok |-> FALSE, span |-> NoSpan, message |-> "", analyzed |-> <<>>,
     tokens |-> <<>>]

(***************************************************************************)
(* Runtime values and the OwnablePoly impls of serde_poly                  *)
(***************************************************************************)
MaxVecLen == 2          \* elements of a Vec value

Prim(v) == [tag |-> "Prim", v |-> v]

CowValue(cow, s) == [tag |-> "Cow", cow |-> cow, s |-> s]

VecValue(elems) == [tag |-> "Vec", elems |-> elems]

NoneValue == [tag |-> "None"]

SomeValue(x) == [tag |-> "Some", x |-> x]

OkValue(x) == [tag |-> "Ok", x |-> x]

ErrValue(x) == [tag |-> "Err", x |-> x]

\* a value of a struct (variant "") or of an enum variant; fields maps each
\* member (field name or tuple index) to its value
Adt(ident, variant, fields) ==
    [tag |-> "Adt", ident |-> ident, variant |-> variant, fields |-> fields]

Primitives ==
    {"u8", "u16", "u32", "u64", "u128", "usize", "i8", "i16", "i32", "i64", "i128",
     "isize", "f32", "f64", "char", "String", "bool"}

\* #[derive(OwnablePoly)] struct SimpleExample<'a> { data: Cow<'a, str> }
SimpleExample ==
    [derives |-> {"OwnablePoly"}, attrs |-> <<>>, vis |-> "", ident |-> "SimpleExample",
     generics |-> Generics(<< Param("Lifetime", "a", "") >>, <<>>),
     data |-> "struct",
     fields |-> Fields("Named", << Field("data", TyCow) >>),
     variants |-> <<>>]

Derived(ident) == IF ident = "SimpleExample" THEN SimpleExample ELSE SimpleExample

IsDerived(ident) == ident = "SimpleExample"

\* the k-th type argument of a one-segment path type
TypeArgOf(ty, k) ==
    LET args == ty.segments[1].arguments.args
        pos == SelectSeq(Indices(args), LAMBDA i : args[i].kind = "Type")
    IN args[pos[k]].ty

\* which impl of OwnablePoly the compiler selects for a type
RECURSIVE ImplFor(_)
ImplFor(ty) ==
    IF ty.variant # "Path" \/ Len(ty.segments) # 1 THEN "none"
    ELSE LET ident == ty.segments[1].ident IN
         CASE ident \in Primitives -> "primitive"
           [] ident = "Vec" ->
                IF ImplFor(TypeArgOf(ty, 1)) # "none" THEN "Vec" ELSE "none"
           [] ident = "Option" ->
                IF ImplFor(TypeArgOf(ty, 1)) # "none" THEN "Option" ELSE "none"
           [] ident = "Result" ->
                IF ImplFor(TypeArgOf(ty, 1)) # "none" /\ ImplFor(TypeArgOf(ty, 2)) # "none"
                THEN "Result" ELSE "none"
           [] ident = "Cow" -> "Cow"
           [] IsDerived(ident) -> "derived"
           [] OTHER -> "none"

RECURSIVE into_owned(_, _)
RECURSIVE run_into_owned(_, _, _)

\* a Vec conversion that collects the elements back to front
VecIntoOwnedReversed(ty, v) ==
    VecValue([i \in 1..Len(v.elems) |->
                into_owned(TypeArgOf(ty, 1), v.elems[Len(v.elems) + 1 - i])])

\* impl OwnablePoly for Vec<T>: self.into_iter().map(|x| x.into_owned()).collect()
VecIntoOwned(ty, v) ==
    VecValue([i \in 1..Len(v.elems) |-> into_owned(TypeArgOf(ty, 1), v.elems[i])])

\* impl OwnablePoly for Option<T>: self.map(|x| x.into_owned())
OptionIntoOwned(ty, v) ==
    IF v.tag = "Some" THEN SomeValue(into_owned(TypeArgOf(ty, 1), v.x)) ELSE NoneValue

\* a Result conversion that maps the Ok side only: self.map(|x| x.into_owned())
ResultIntoOwnedOkOnly(ty, v) ==
    IF v.tag = "Ok" THEN OkValue(into_owned(TypeArgOf(ty, 1), v.x)) ELSE v

\* impl OwnablePoly for Result<T, E>
ResultIntoOwned(ty, v) ==
    IF v.tag = "Ok" THEN OkValue(into_owned(TypeArgOf(ty, 1), v.x))
    ELSE ErrValue(into_owned(TypeArgOf(ty, 2), v.x))

\* impl OwnablePoly for Cow<'a, B>: Cow::Owned(self.into_owned())
CowIntoOwned(v) == CowValue("Owned", v.s)

\* impl_ownable_poly_primitive!: fn into_owned(self) -> Self { self }
PrimitiveIntoOwned(v) == v

\* ::serde_poly::OwnablePoly::into_owned(v) for v of static type ty
into_owned(ty, v) ==
    LET impl == ImplFor(ty) IN
    CASE impl = "primitive" -> PrimitiveIntoOwned(v)
      [] impl = "Vec" -> VecIntoOwned(ty, v)
      [] impl = "Option" -> OptionIntoOwned(ty, v)
      [] impl = "Result" -> ResultIntoOwned(ty, v)
      [] impl = "Cow" -> CowIntoOwned(v)
      [] impl = "derived" ->
            LET in == Derived(ty.segments[1].ident) IN
            run_into_owned(expand_ownable_poly(in).tokens[1], in, v)

\* the struct or variant expression of the generated body, evaluated with the
\* bindings of v's fields; bind maps a source name to the member it reads
EvalInits(kind, inits, bind, v, decl) ==
    LET target(k) == IF kind = "Named" THEN inits[k].name ELSE ToString(k - 1) IN
    [m \in {target(k) : k \in 1..Len(inits)} |->
        LET init == inits[CHOOSE k \in 1..Len(inits) : target(k) = m]
            src == bind[init.source]
        IN IF init.owned THEN into_owned(DeclType(decl, src), v.fields[src])
           ELSE v.fields[src]]

\* the generated fn into_owned(self) of a derived impl, applied to v
run_into_owned(item, in, v) ==
    LET body == item.body IN
    CASE body.kind = "self" -> v
      [] body.kind = "struct" ->
            Adt(body.ident, "",
                EvalInits(body.fields.kind, body.fields.inits,
                          [m \in MemberKeys(in.fields) |-> m], v, in.fields))
      [] body.kind = "match" ->
            LET a == CHOOSE k \in 1..Len(body.arms) :
                        /\ body.arms[k].pat.variant = v.variant
                        /\ \A j \in 1..(k - 1) : body.arms[j].pat.variant # v.variant
                arm == body.arms[a]
                decl == (CHOOSE d \in {in.variants[i] : i \in 1..Len(in.variants)} :
                            d.ident = arm.pat.variant).fields
                bind == [s \in {arm.pat.bindings[i] : i \in 1..Len(arm.pat.bindings)} |->
                            IF arm.pat.kind = "Named" THEN s
                            ELSE ToString((CHOOSE i \in 1..Len(arm.pat.bindings) :
                                             arm.pat.bindings[i] = s) - 1)]
            IN Adt(body.ident, arm.variant, EvalInits(arm.kind, arm.inits, bind, v, decl))

\* some values of a type
RECURSIVE ValuesOf(_)
ValuesOf(ty) ==
    LET impl == ImplFor(ty) IN
    CASE impl = "primitive" -> {Prim("42"), Prim("100")}
      [] impl = "Vec" ->
            {VecValue(e) : e \in SeqsUpTo(ValuesOf(TypeArgOf(ty, 1)), MaxVecLen)}
      [] impl = "Option" ->
            {NoneValue} \cup {SomeValue(x) : x \in ValuesOf(TypeArgOf(ty, 1))}
      [] impl = "Result" ->
            {OkValue(x) : x \in ValuesOf(TypeArgOf(ty, 1))}
            \cup {ErrValue(x) : x \in ValuesOf(TypeArgOf(ty, 2))}
      [] impl = "Cow" ->
            {CowValue("Borrowed", "world"), CowValue("Owned", "hello")}
      [] impl = "derived" ->
            {Adt("SimpleExample", "", [data |-> c]) : c \in ValuesOf(TyCow)}
      [] OTHER -> {Prim("123")}

RECURSIVE ValueTuples(_, _)
ValueTuples(list, n) ==
    IF n = 0 THEN {<<>>}
    ELSE {Append(t, x) : t \in ValueTuples(list, n - 1), x \in ValuesOf(list[n].ty)}

FieldValues(fields) ==
    { [m \in MemberKeys(fields) |->
          t[CHOOSE i \in 1..Len(fields.list) : MemberKey(fields, i) = m]] :
      t \in ValueTuples(fields.list, Len(fields.list)) }

SchemaValues(in) ==
    IF in.data = "struct" THEN {Adt(in.ident, "", f) : f \in FieldValues(in.fields)}
    ELSE UNION { {Adt(in.ident, in.variants[i].ident, f) :
                     f \in FieldValues(in.variants[i].fields)} :
                 i \in 1..Len(in.variants) }

\* every field of the declaration, struct fields or variant payloads
RECURSIVE VariantFields(_, _)
VariantFields(variants, v) ==
    IF v > Len(variants) THEN <<>>
    ELSE variants[v].fields.list \o VariantFields(variants, v + 1)

AllFields(in) == IF in.data = "enum" THEN VariantFields(in.variants, 1) ELSE in.fields.list

UsesLifetime(ty, ident) == Occurs(ty, {ident}, TRUE)

\* the declaration and its derived OwnablePoly impl are accepted by rustc:
\* parameters are declared iff used, every converted field has an impl, and
\* every field passed through has a type without lifetimes
Compiles(in) ==
    LET fs == AllFields(in)
        params == in.generics.params
        declared(kind, ident) ==
            \E p \in 1..Len(params) : params[p].kind = kind /\ params[p].ident = ident
    IN /\ in.data \in {"struct", "enum"}
       /\ expand_ownable_poly(in).ok
       /\ \A l \in {"a", "b", "c"} :
            declared("Lifetime", l) <=> \E f \in 1..Len(fs) : UsesLifetime(fs[f].ty, l)
       /\ declared("Type", "T") <=> \E f \in 1..Len(fs) : fs[f].ty = TyT
       /\ \A f \in 1..Len(fs) :
            IF type_contains_any_lifetime(fs[f].ty, LifetimeParams(params))
            THEN ImplFor(fs[f].ty) # "none"
            ELSE \A l \in {"a", "b", "c"} : ~UsesLifetime(fs[f].ty, l)

(***************************************************************************)
(* Declarations the model is run on                                        *)
(***************************************************************************)
DeriveInput(derives, attrs, vis, ident, generics, data, fields, variants) ==
    [derives |-> derives, attrs |-> attrs, vis |-> vis, ident |-> ident,
     generics |-> generics, data |-> data, fields |-> fields, variants |-> variants]

UnitFields == [kind |-> "Unit", list |-> <<>>]

DataKinds == {"struct", "enum", "union"}

ParamSamples ==
    { <<>>,
      << Param("Lifetime", "a", "") >>,
      << Param("Lifetime", "a", ""), Param("Lifetime", "b", "") >> }

AttrSamples ==
    { <<>>,
      << Attribute("poly", "List", << NestedMeta("name", "Str", "BorrowedAlias") >>) >>,
      << Attribute("poly", "List", << NestedMeta("rename", "None", "") >>) >> }

\* declarations that carry #[derive(Poly)]: it reads the attributes, the
\* visibility, the name and the generics, never the fields.  Every attribute
\* list on a few parameter lists, and every parameter list under a few
\* attribute lists.
PolyInputs ==
    { DeriveInput({"Poly"}, attrs, "", "Borrowed", Generics(params, <<>>), "struct",
                  UnitFields, <<>>) :
        attrs \in AttrLists, params \in ParamSamples }
    \cup
    { DeriveInput({"Poly"}, attrs, vis, ident, Generics(params, wc), data,
                  UnitFields, <<>>) :
        attrs \in AttrSamples, vis \in Visibilities, ident \in Idents,
        params \in ParamLists, wc \in WhereClauses, data \in DataKinds }

OwnParamLists ==
    { <<>>,
      << Param("Lifetime", "a", "") >>,
      << Param("Lifetime", "a", ""), Param("Type", "T", "") >>,
      << Param("Type", "T", "") >>,
      << Param("Lifetime", "a", ""), Param("Lifetime", "b", "") >> }

\* declarations that carry #[derive(OwnablePoly)]: it reads the name, the
\* generics and the fields or variants, never the attributes
OwnInputs ==
    { DeriveInput({"OwnablePoly"}, <<>>, "", "Example", Generics(params, <<>>),
                  "struct", fields, <<>>) :
        params \in OwnParamLists,
        fields \in FieldShapes(FieldTypes, MaxFields) \cup FieldSamples }
    \cup
    { DeriveInput({"OwnablePoly"}, <<>>, "", "Example", Generics(params, <<>>),
                  "enum", UnitFields, variants) :
        params \in OwnParamLists, variants \in VariantLists }
    \cup
    { DeriveInput({"OwnablePoly"}, <<>>, "", "Example", Generics(params, <<>>),
                  "union", fields, <<>>) :
        params \in OwnParamLists,
        fields \in {FieldsOf("Named", <<TyU32>>), FieldsOf("Named", <<TyCow>>),
                    FieldsOf("Named", <<TyU32, TyCow>>)} }

Init ==
    /\ \/ input \in PolyInputs
       \/ input \in OwnInputs
    /\ poly = NotDerived
    /\ ownable = NotDerivedOwnable
    /\ values = <<>>

\* #[derive(Poly)] expands on the declaration
DerivePoly ==
    /\ "Poly" \in input.derives
    /\ ~poly.done
    /\ poly' = derive_poly(input)
    /\ UNCHANGED <<input, ownable, values>>

\* #[derive(OwnablePoly)] expands on the declaration
DeriveOwnablePoly ==
    /\ "OwnablePoly" \in input.derives
    /\ ~ownable.done
    /\ ownable' = derive_ownable_poly(input)
    /\ UNCHANGED <<input, poly, values>>

\* the program calls the generated into_owned on a value of the declared type
IntoOwned ==
    /\ ownable.done
    /\ Compiles(input)
    /\ values = <<>>
    /\ \E v \in SchemaValues(input) :
          values' = <<v, run_into_owned(ownable.tokens[1], input, v)>>
    /\ UNCHANGED <<input, poly, ownable>>

\* the program calls into_owned again on the owned value it got
IntoOwnedAgain ==
    /\ Len(values) >= 2
    /\ Len(values) <= MaxCalls
    /\ values' = Append(values, run_into_owned(ownable.tokens[1], input, values[Len(values)]))
    /\ UNCHANGED <<input, poly, ownable>>

Next ==
    \/ DerivePoly
    \/ DeriveOwnablePoly
    \/ IntoOwned
    \/ IntoOwnedAgain

Spec == Init /\ [][Next]_vars

(***************************************************************************)
(* Type-level reading of the generated impls                               *)
(***************************************************************************)
Scopes == {"static", "x", "y"}

ConcreteTypes == {"u32", "String"}

ConcreteConsts == {"8", "16"}

\* the argument lists a declaration with these parameters can be instantiated
\* at, with the given scope for every lifetime
ConcreteArgs(params, scope) ==
    { c \in [1..Len(params) -> {scope} \cup ConcreteTypes \cup ConcreteConsts] :
        \A i \in 1..Len(params) :
            CASE params[i].kind = "Lifetime" -> c[i] = scope
              [] params[i].kind = "Type" -> c[i] \in ConcreteTypes
              [] params[i].kind = "Const" -> c[i] \in ConcreteConsts }

ImplsOf(tokens, trait, ident) ==
    SelectSeq(tokens, LAMBDA t : t.item = "impl" /\ t.trait = trait
                                 /\ t.self_ty.ident = ident)

StructsOf(tokens) == SelectSeq(tokens, LAMBDA t : t.item = "struct")

\* the associated type `out` of an impl, for the concrete self type ty and
\* the scope de given to Out<'de>
Project(impl, ty, de) ==
    IF impl.out = SelfType THEN ty
    ELSE TypeOf(impl.out.ident,
                [i \in 1..Len(impl.out.args) |->
                    IF impl.out.args[i] = DeArg THEN de
                    ELSE ty.args[CHOOSE k \in 1..Len(impl.self_ty.args) :
                                    impl.self_ty.args[k] = impl.out.args[i]]])

\* <ty as SerializePoly>::Out
Erase(tokens, ty) ==
    Project(ImplsOf(tokens, "::serde_poly::SerializePoly", ty.ident)[1], ty, "")

\* <tag as DeserializePoly>::Out<'de>
Restore(tokens, tag, de) ==
    Project(ImplsOf(tokens, "::serde_poly::DeserializePoly", tag.ident)[1], tag, de)

NumLifetimes == Len(LifetimeParams(input.generics.params))

IsSchema == input.data \in {"struct", "enum"}

Generated == poly.done /\ poly.ok

\* the declaration with the lifetime argument of c replaced by scope b
AtScope(c, b) ==
    TypeOf(input.ident,
           [i \in 1..Len(c) |->
               IF input.generics.params[i].kind = "Lifetime" THEN b ELSE c[i]])

\* the name options of the #[poly(...)] attributes, in source order
RECURSIVE NameOptions(_, _)
NameOptions(attrs, i) ==
    IF i > Len(attrs) THEN <<>>
    ELSE (IF attrs[i].path = "poly" /\ attrs[i].meta = "List"
          THEN SelectSeq(attrs[i].nested, LAMBDA m : m.key = "name")
          ELSE <<>>) \o NameOptions(attrs, i + 1)

OnlyCompileError ==
    /\ ~poly.ok
    /\ Len(poly.tokens) = 1
    /\ poly.tokens[1].item = "compile_error"
    /\ poly.tokens[1].span = poly.span

(***************************************************************************)
(* Claims                                                                  *)
(***************************************************************************)

\* C1: for a schema with exactly one lifetime parameter whose Poly items were
\* generated, erasing Schema<a, P> and restoring the tag at scope b gives
\* Schema<b, P>: b sits at the lifetime's position, every other argument
\* keeps its position, and the tag carries no scope at all.
C1_RestoreAfterErase ==
    (Generated /\ NumLifetimes = 1) =>
        \A a \in Scopes, b \in Scopes :
            \A c \in ConcreteArgs(input.generics.params, a) :
                LET tag == Erase(poly.tokens, TypeOf(input.ident, c)) IN
                /\ \A i \in 1..Len(tag.args) : tag.args[i] \notin Scopes
                /\ tag.ident # input.ident
                /\ Restore(poly.tokens, tag, b) = AtScope(c, b)

C1_Witness ==
    /\ Generated
    /\ NumLifetimes = 1
    /\ Len(input.generics.params) = 3
    /\ input.generics.params[2].kind = "Lifetime"
    /\ \E c \in ConcreteArgs(input.generics.params, "x") :
          Restore(poly.tokens, Erase(poly.tokens, TypeOf(input.ident, c)), "static")
              = AtScope(c, "static")

\* C2: for a struct or enum with no lifetime parameter, the generated
\* SerializePoly::Out is Self and DeserializePoly::Out<'de> is Self for every
\* scope, both implemented for the schema itself, and no tag struct is
\* declared.
C2_IdentityLaw ==
    (poly.done /\ IsSchema /\ NumLifetimes = 0) =>
        /\ StructsOf(poly.tokens) = <<>>
        /\ poly.ok =>
            /\ Len(poly.tokens) = 2
            /\ Len(ImplsOf(poly.tokens, "::serde_poly::SerializePoly", input.ident)) = 1
            /\ Len(ImplsOf(poly.tokens, "::serde_poly::DeserializePoly", input.ident)) = 1
            /\ \A d \in Scopes :
                 \A c \in ConcreteArgs(input.generics.params, d) :
                    LET schema == TypeOf(input.ident, c) IN
                    /\ Erase(poly.tokens, schema) = schema
                    /\ Restore(poly.tokens, schema, d) = schema

C2_Witness ==
    /\ Generated
    /\ input.data = "enum"
    /\ NumLifetimes = 0
    /\ Len(input.generics.params) = 2
    /\ poly.tokens[1].out = SelfType
    /\ poly.tokens[2].out = SelfType

\* C7 as stated: with one lifetime parameter and no naming override the tag
\* type is named <schema>Tag.
C7_SuffixTag ==
    (Generated /\ NumLifetimes = 1 /\ NameOptions(input.attrs, 1) = <<>>) =>
        /\ Len(StructsOf(poly.tokens)) = 1
        /\ StructsOf(poly.tokens)[1].ident = input.ident \o "Tag"

\* C7 amended: with one lifetime parameter and no naming override the tag
\* type is named <schema>Poly, whatever the kind, the other parameters, the
\* visibility and the where clause; the Erase mapping's result and the type
\* implementing the Restore mapping carry that name.
C7_SuffixPoly ==
    (Generated /\ NumLifetimes = 1 /\ NameOptions(input.attrs, 1) = <<>>) =>
        /\ Len(StructsOf(poly.tokens)) = 1
        /\ StructsOf(poly.tokens)[1].ident = input.ident \o "Poly"
        /\ Len(ImplsOf(poly.tokens, "::serde_poly::DeserializePoly",
                       input.ident \o "Poly")) = 1
        /\ ImplsOf(poly.tokens, "::serde_poly::SerializePoly", input.ident)[1].out.ident
              = input.ident \o "Poly"

C7_Witness ==
    /\ Generated
    /\ NumLifetimes = 1
    /\ input.attrs = <<>>
    /\ input.ident = "Borrowed"
    /\ StructsOf(poly.tokens)[1].ident = "BorrowedPoly"

\* C8: with one lifetime parameter and a name = "X" option (the last one
\* given, if the option is repeated), the only tag type generated is named
\* exactly X, SerializePoly::Out is X and DeserializePoly is implemented
\* for X; no <schema>Poly type appears.
C8_NameOverride ==
    LET names == NameOptions(input.attrs, 1) IN
    (Generated /\ NumLifetimes = 1 /\ names # <<>>) =>
        LET X == names[Len(names)].value IN
        /\ Len(StructsOf(poly.tokens)) = 1
        /\ StructsOf(poly.tokens)[1].ident = X
        /\ X # input.ident \o "Poly"
        /\ ImplsOf(poly.tokens, "::serde_poly::SerializePoly", input.ident)[1].out.ident = X
        /\ Len(ImplsOf(poly.tokens, "::serde_poly::DeserializePoly", X)) = 1
        /\ ImplsOf(poly.tokens, "::serde_poly::DeserializePoly", input.ident \o "Poly") = <<>>

C8_Witness ==
    /\ Generated
    /\ NumLifetimes = 1
    /\ NameOptions(input.attrs, 1) = << NestedMeta("name", "Str", "BorrowedAlias") >>
    /\ StructsOf(poly.tokens)[1].ident = "BorrowedAlias"

\* C9: a declaration with no lifetime parameter that carries a name option
\* never gets Poly items: the expansion is an error and the only thing
\* emitted is the compile error.
C9_NameRejectedWithoutLifetime ==
    (poly.done /\ NumLifetimes = 0 /\ NameOptions(input.attrs, 1) # <<>>) =>
        /\ OnlyCompileError
        /\ (IsSchema /\ parse_poly_name(input.attrs, input.ident).ok) =>
              /\ poly.span = parse_poly_name(input.attrs, input.ident).attr_span
              /\ poly.span.kind = "lit"

C9_Witness ==
    /\ poly.done
    /\ input.data = "struct"
    /\ NumLifetimes = 0
    /\ Len(input.generics.params) = 2
    /\ NameOptions(input.attrs, 1) = << NestedMeta("name", "Str", "BorrowedAlias") >>
    /\ OnlyCompileError
    /\ poly.checks = <<"union", "attrs", "lifetimes", "name">>

\* the position of the second lifetime parameter in the parameter list
SecondLifetime == LifetimeParams(input.generics.params)[2].span

\* C10 as stated: every struct or enum with two or more lifetime parameters
\* fails with an error located at the second lifetime parameter.
C10_ErrorAtSecondLifetime ==
    (poly.done /\ IsSchema /\ NumLifetimes >= 2) =>
        /\ OnlyCompileError
        /\ poly.span = SecondLifetime

\* C10 amended: every declaration with two or more lifetime parameters fails
\* and emits nothing but the compile error; for a struct or enum the error
\* is located at the second lifetime parameter when its poly attributes
\* parse, and at the offending attribute when they do not.
C10_ErrorAtSecondLifetimeIfAttrsParse ==
    (poly.done /\ NumLifetimes >= 2) =>
        /\ OnlyCompileError
        /\ IsSchema =>
             LET name == parse_poly_name(input.attrs, input.ident) IN
             IF name.ok
             THEN /\ poly.span = SecondLifetime
                  /\ poly.message
                        = "Poly derive supports at most one lifetime parameter"
             ELSE /\ poly.span = name.span
                  /\ poly.span.kind \in {"lit", "meta_path", "attr"}

C10_Witness ==
    /\ poly.done
    /\ input.data = "enum"
    /\ NumLifetimes = 3
    /\ input.generics.params[1].kind = "Lifetime"
    /\ OnlyCompileError
    /\ poly.span = Span("lifetime", 2, 0)
    /\ input.attrs # <<>>

(***************************************************************************)
(* Claims about #[derive(OwnablePoly)] and into_owned                      *)
(***************************************************************************)
OwnableItemOf == ownable.tokens[1]

Called == Len(values) >= 2

\* what the claims expect of field i of a struct or variant: converted iff
\* its declared type depends on the declaration's lifetime
ExpectedField(fields, i, v) ==
    LET m == MemberKey(fields, i)
        ty == fields.list[i].ty
    IN IF type_contains_any_lifetime(ty, LifetimeParams(input.generics.params))
       THEN into_owned(ty, v.fields[m])
       ELSE v.fields[m]

ExpectedFields(fields, before, after) ==
    /\ DOMAIN after.fields = MemberKeys(fields)
    /\ \A i \in 1..Len(fields.list) :
          after.fields[MemberKey(fields, i)] = ExpectedField(fields, i, before)

\* a Cow somewhere in the value is still borrowed
RECURSIVE HasBorrowed(_)
HasBorrowed(v) ==
    CASE v.tag = "Cow" -> v.cow = "Borrowed"
      [] v.tag = "Vec" -> \E i \in 1..Len(v.elems) : HasBorrowed(v.elems[i])
      [] v.tag \in {"Some", "Ok", "Err"} -> HasBorrowed(v.x)
      [] v.tag = "Adt" -> \E m \in DOMAIN v.fields : HasBorrowed(v.fields[m])
      [] OTHER -> FALSE

\* C3: for a struct or enum with no lifetime parameter the derive succeeds
\* with Owned = Self and a body that returns self, no field type is handed
\* to type_contains_any_lifetime, and into_owned returns its input.
C3_NoLifetimeIsIdentity ==
    (ownable.done /\ IsSchema /\ NumLifetimes = 0) =>
        /\ ownable.ok
        /\ Len(ownable.tokens) = 1
        /\ OwnableItemOf.owned = SelfType
        /\ OwnableItemOf.self_ty = TypeOf(input.ident, TyGenerics(input.generics.params))
        /\ OwnableItemOf.body = [kind |-> "self"]
        /\ ownable.analyzed = <<>>
        /\ Called => values[2] = values[1]

C3_Witness ==
    /\ Called
    /\ NumLifetimes = 0
    /\ input.data = "enum"
    /\ Len(input.variants) = 2
    /\ values[1].variant = "V1"
    /\ values[1].fields # <<>>
    /\ values[2] = values[1]

\* C4: for a struct with one lifetime parameter the generated body rebuilds
\* the same struct with one initialiser per field, in declaration order and
\* under the same name or index, and into_owned gives field i the
\* into_owned of input field i exactly when its type depends on the
\* lifetime, and input field i itself otherwise; TupleExample(Borrowed
\* "world", 100) becomes (Owned "world", 100).
C4_StructFieldwise ==
    (ownable.done /\ input.data = "struct" /\ NumLifetimes = 1) =>
        LET body == OwnableItemOf.body
            fields == input.fields
        IN
        /\ ownable.ok
        /\ body.kind = "struct"
        /\ body.ident = input.ident
        /\ body.fields.kind = fields.kind
        /\ Len(body.fields.inits) = Len(fields.list)
        /\ \A i \in 1..Len(fields.list) :
              /\ body.fields.inits[i].name = fields.list[i].ident
              /\ body.fields.inits[i].source = MemberKey(fields, i)
              /\ body.fields.inits[i].owned
                    = type_contains_any_lifetime(fields.list[i].ty,
                                                 LifetimeParams(input.generics.params))
        /\ Called =>
              /\ values[2].ident = input.ident
              /\ values[2].variant = ""
              /\ ExpectedFields(fields, values[1], values[2])
        /\ (/\ Called
            /\ fields = FieldsOf("Unnamed", <<TyCow, TyU32>>)
            /\ values[1].fields["0"] = CowValue("Borrowed", "world")
            /\ values[1].fields["1"] = Prim("100"))
              => /\ values[2].fields["0"] = CowValue("Owned", "world")
                 /\ values[2].fields["1"] = Prim("100")

C4_Witness ==
    /\ Called
    /\ input.data = "struct"
    /\ NumLifetimes = 1
    /\ input.fields = FieldsOf("Unnamed", <<TyCow, TyU32>>)
    /\ values[1] = Adt("Example", "", [m \in {"0", "1"} |->
                        IF m = "0" THEN CowValue("Borrowed", "world") ELSE Prim("100")])
    /\ values[2] = Adt("Example", "", [m \in {"0", "1"} |->
                        IF m = "0" THEN CowValue("Owned", "world") ELSE Prim("100")])

\* the declared variant a value is of
VariantOf(v) ==
    CHOOSE d \in {input.variants[i] : i \in 1..Len(input.variants)} : d.ident = v.variant

\* C5: for an enum with one lifetime parameter every match arm rebuilds the
\* variant it matches, and into_owned returns a value of the input's
\* variant: a unit variant unchanged, a payload variant with the same
\* members, each converted iff its type depends on the lifetime.
C5_EnumVariantPreserved ==
    (ownable.done /\ input.data = "enum" /\ NumLifetimes = 1) =>
        LET body == OwnableItemOf.body IN
        /\ ownable.ok
        /\ body.kind = "match"
        /\ Len(body.arms) = Len(input.variants)
        /\ \A k \in 1..Len(body.arms) :
              /\ body.arms[k].pat.variant = input.variants[k].ident
              /\ body.arms[k].variant = input.variants[k].ident
              /\ body.arms[k].kind = input.variants[k].fields.kind
        /\ Called =>
              /\ values[2].ident = values[1].ident
              /\ values[2].variant = values[1].variant
              /\ ExpectedFields(VariantOf(values[1]).fields, values[1], values[2])
              /\ VariantOf(values[1]).fields.kind = "Unit" => values[2] = values[1]

C5_Witness ==
    /\ Called
    /\ input.data = "enum"
    /\ NumLifetimes = 1
    /\ Len(input.variants) = 2
    /\ input.variants[1].fields.kind = "Unit"
    /\ values[1].variant = "V1"
    /\ HasBorrowed(values[1])
    /\ values[2].variant = "V1"
    /\ ~HasBorrowed(values[2])

\* C6: converting the result of into_owned again returns an equal value.
C6_Idempotent ==
    Len(values) >= 3 => values[3] = values[2]

C6_Witness ==
    /\ Len(values) = 3
    /\ values[2] # values[1]
    /\ values[3] = values[2]
    /\ \E m \in DOMAIN values[1].fields : values[1].fields[m].tag = "Vec"

(***************************************************************************)
(* Claims about the errors of #[derive(Poly)] and the shape of the tag     *)
(***************************************************************************)
UnionToken == Span("union_token", 0, 0)

\* C11: for every union, whatever its generic parameters and attributes,
\* #[derive(Poly)] fails with the error located at the union keyword, the
\* only thing emitted is the compile error, and neither the attributes nor
\* the lifetimes were looked at.
C11_UnionRejected ==
    (poly.done /\ input.data = "union") =>
        /\ OnlyCompileError
        /\ poly.span = UnionToken
        /\ poly.message = "Poly derive does not support unions"
        /\ poly.checks = <<"union">>
        /\ StructsOf(poly.tokens) = <<>>

C11_Witness ==
    /\ poly.done
    /\ input.data = "union"
    /\ NumLifetimes = 2
    /\ Len(input.generics.params) = 3
    /\ ~parse_poly_name(input.attrs, input.ident).ok
    /\ OnlyCompileError
    /\ poly.span = UnionToken

\* the positions of the parameters that are not lifetimes, in order
Kept(params) == SelectSeq(Indices(params), LAMBDA i : params[i].kind # "Lifetime")

TagStruct == StructsOf(poly.tokens)[1]

\* C12: for a schema with exactly one lifetime parameter the Poly type is
\* declared with the schema's parameters minus the lifetime: every type and
\* const parameter, in the same order, with the bounds written on it; and
\* Schema<scope, P...> erases to the Poly type applied to P..., in that
\* order (a schema over <'a, const LEN> at 8 erases to the Poly type at 8).
C12_TagParams ==
    (Generated /\ NumLifetimes = 1) =>
        LET params == input.generics.params
            kept == Kept(params)
        IN
        /\ Len(StructsOf(poly.tokens)) = 1
        /\ TagStruct.generics_decl = [k \in 1..Len(kept) |-> params[kept[k]]]
        /\ \A a \in Scopes :
              \A c \in ConcreteArgs(params, a) :
                 Erase(poly.tokens, TypeOf(input.ident, c))
                    = TypeOf(TagStruct.ident, [k \in 1..Len(kept) |-> c[kept[k]]])

C12_Witness ==
    /\ Generated
    /\ input.generics.params
          = << Param("Type", "T", "Clone"), Param("Lifetime", "a", ""),
               Param("Const", "LEN", "usize") >>
    /\ TagStruct.generics_decl
          = << Param("Type", "T", "Clone"), Param("Const", "LEN", "usize") >>
    /\ Erase(poly.tokens, TypeOf(input.ident, <<"String", "x", "8">>))
          = TypeOf(TagStruct.ident, <<"String", "8">>)

NumParams(kind) == Len(SelectSeq(input.generics.params, LAMBDA p : p.kind = kind))

\* C13 as stated: the Poly type has as many fields as the schema has type
\* parameters; a const parameter adds no field.
C13_MarkerPerTypeParam ==
    (Generated /\ NumLifetimes = 1) =>
        Len(TagStruct.fields) = NumParams("Type")

\* C13 amended: the Poly type has one field per retained parameter, type or
\* const, in parameter order: PhantomData<fn() -> T> for a type parameter T
\* and PhantomData<fn() -> ()> for a const parameter; every field is a
\* PhantomData, so the type stores no data.
C13_MarkerPerRetainedParam ==
    (Generated /\ NumLifetimes = 1) =>
        LET params == input.generics.params
            kept == Kept(params)
            fields == TagStruct.fields
        IN
        /\ Len(fields) = NumParams("Type") + NumParams("Const")
        /\ Len(fields) = Len(kept)
        /\ \A k \in 1..Len(kept) :
              /\ fields[k].ty \in {"PhantomData<fn() -> T>", "PhantomData<fn() -> ()>"}
              /\ fields[k].vis = input.vis
              /\ fields[k].ty
                    = IF params[kept[k]].kind = "Type"
                      THEN "PhantomData<fn() -> " \o params[kept[k]].ident \o ">"
                      ELSE "PhantomData<fn() -> ()>"

C13_Witness ==
    /\ Generated
    /\ input.generics.params
          = << Param("Lifetime", "a", ""), Param("Const", "LEN", "usize"),
               Param("Type", "T", "Clone") >>
    /\ input.vis = "pub"
    /\ TagStruct.fields
          = << [vis |-> "pub", ty |-> "PhantomData<fn() -> ()>"],
               [vis |-> "pub", ty |-> "PhantomData<fn() -> T>"] >>

(***************************************************************************)
(* Claims about the checks of #[derive(OwnablePoly)]                       *)
(***************************************************************************)
OnlyOwnableCompileError ==
    /\ ~ownable.ok
    /\ Len(ownable.tokens) = 1
    /\ ownable.tokens[1].item = "compile_error"
    /\ ownable.tokens[1].span = ownable.span

\* C14 as stated: for every struct or enum with two or more lifetime
\* parameters #[derive(OwnablePoly)] fails with the error located at the
\* second lifetime parameter and emits no impl.
C14_OwnableRejectsSecondLifetime ==
    (ownable.done /\ IsSchema /\ NumLifetimes >= 2) =>
        /\ OnlyOwnableCompileError
        /\ ownable.span = SecondLifetime

\* C14 amended: #[derive(OwnablePoly)] does not count the lifetimes; for
\* every struct or enum with two or more lifetime parameters it succeeds
\* with one impl whose Owned type is the declaration with every lifetime
\* replaced by 'static and every other parameter kept, and into_owned leaves
\* no borrowed Cow under any of the lifetimes.
C14_OwnableAcceptsManyLifetimes ==
    (ownable.done /\ IsSchema /\ NumLifetimes >= 2) =>
        LET params == input.generics.params IN
        /\ ownable.ok
        /\ Len(ownable.tokens) = 1
        /\ OwnableItemOf.item = "impl"
        /\ OwnableItemOf.owned.ident = input.ident
        /\ Len(OwnableItemOf.owned.args) = Len(params)
        /\ \A i \in 1..Len(params) :
              OwnableItemOf.owned.args[i]
                 = IF params[i].kind = "Lifetime" THEN LifetimeArg("static")
                   ELSE TyArg(params[i])
        /\ Called => ~HasBorrowed(values[2])

C14_Witness ==
    /\ Called
    /\ NumLifetimes = 2
    /\ input.fields = FieldsOf("Named", <<TyCow, TyCowB>>)
    /\ values[1].fields["f0"] = CowValue("Borrowed", "world")
    /\ values[1].fields["f1"] = CowValue("Borrowed", "world")
    /\ values[2].fields["f0"] = CowValue("Owned", "world")
    /\ values[2].fields["f1"] = CowValue("Owned", "world")
    /\ OwnableItemOf.owned = TypeOf("Example", << LifetimeArg("static"), LifetimeArg("static") >>)

\* C15: for every union, with a lifetime parameter or without one,
\* #[derive(OwnablePoly)] fails with the error located at the union keyword
\* and emits no impl.
C15_OwnableUnionRejected ==
    (ownable.done /\ input.data = "union") =>
        /\ OnlyOwnableCompileError
        /\ ownable.span = UnionToken

(***************************************************************************)
(* Claims about type_contains_any_lifetime                                 *)
(***************************************************************************)
\* the names of the declared lifetime parameters
DeclaredLifetimes ==
    {input.generics.params[i].ident :
        i \in {j \in 1..Len(input.generics.params) :
                  input.generics.params[j].kind = "Lifetime"}}

\* the answer type_contains_any_lifetime gave for field i of the struct
Analyzed(i) == OwnableItemOf.body.fields.inits[i].owned

DeclFieldsOf(v) ==
    IF input.data = "enum" THEN VariantOf(v).fields ELSE input.fields

\* the members of v the generated into_owned calls OwnablePoly::into_owned
\* on, among the initialisers the body runs on v: those of the struct
\* expression, or of the first arm whose pattern matches v
ConvertedMembers(v) ==
    LET body == OwnableItemOf.body
        inits ==
            CASE body.kind = "self" -> <<>>
              [] body.kind = "struct" -> body.fields.inits
              [] body.kind = "match" ->
                    body.arms[CHOOSE k \in 1..Len(body.arms) :
                                 /\ body.arms[k].pat.variant = v.variant
                                 /\ \A j \in 1..(k - 1) :
                                       body.arms[j].pat.variant # v.variant].inits
    IN
    {MemberKey(DeclFieldsOf(v), k) : k \in {j \in 1..Len(inits) : inits[j].owned}}

BadOption(attr, j) == attr.nested[j].key # "name" \/ attr.nested[j].lit # "Str"

\* a poly attribute parse_poly_name refuses: the name-value form, or a list
\* with an option that is not `name = "<string>"`
Misused(attr) ==
    /\ attr.path = "poly"
    /\ \/ attr.meta = "NameValue"
       \/ attr.meta = "List" /\ \E j \in 1..Len(attr.nested) : BadOption(attr, j)

\* a poly attribute that is anything but a list holding the one option
\* `name = "<string>"`
NotSingleName(attr) ==
    /\ attr.path = "poly"
    /\ ~(/\ attr.meta = "List"
         /\ Len(attr.nested) = 1
         /\ ~BadOption(attr, 1))

\* where the first refused attribute is refused
FirstMisuse(attrs) ==
    LET i == CHOOSE k \in 1..Len(attrs) :
                Misused(attrs[k]) /\ \A h \in 1..(k - 1) : ~Misused(attrs[h])
        attr == attrs[i]
    IN IF attr.meta = "NameValue" THEN Span("attr", i, 0)
       ELSE LET j == CHOOSE k \in 1..Len(attr.nested) :
                        BadOption(attr, k) /\ \A h \in 1..(k - 1) : ~BadOption(attr, h)
            IN Span(IF attr.nested[j].key = "name" THEN "lit" ELSE "meta_path", i, j)

\* C18 as stated: every declaration with a poly attribute that is not the
\* single option name = "<string>" (an unknown key, the name-value form, or
\* a bare poly) is an error and nothing is generated.
C18_OnlySingleNameAccepted ==
    (poly.done /\ \E i \in 1..Len(input.attrs) : NotSingleName(input.attrs[i])) =>
        OnlyCompileError

\* C18 amended: a poly attribute in the name-value form, or a list with an
\* unknown key or a name that is not a string literal, is an error located
\* at that attribute, option or literal, and nothing is generated; a bare
\* poly, an empty list and a list that repeats name are accepted: with one
\* lifetime parameter the Poly type is generated, named by the last name
\* given, or by default when none is.
C18_AttributeMisuse ==
    poly.done =>
        LET misused == \E i \in 1..Len(input.attrs) : Misused(input.attrs[i])
            names == NameOptions(input.attrs, 1)
        IN
        /\ misused =>
              /\ OnlyCompileError
              /\ IsSchema =>
                    /\ poly.span = FirstMisuse(input.attrs)
                    /\ poly.message = IF poly.span.kind = "lit"
                                      THEN "expected string literal"
                                      ELSE "unsupported poly attribute"
                    /\ poly.checks = <<"union", "attrs">>
        /\ (~misused /\ IsSchema /\ NumLifetimes = 1) =>
              /\ poly.ok
              /\ TagStruct.ident = IF names = <<>> THEN input.ident \o "Poly"
                                   ELSE names[Len(names)].value

C18_Witness ==
    /\ Generated
    /\ NumLifetimes = 1
    /\ input.attrs = << Attribute("poly", "Path", <<>>) >>
    /\ NotSingleName(input.attrs[1])
    /\ TagStruct.ident = "BorrowedPoly"

(***************************************************************************)
(* Claims about the OwnablePoly impls of the containers                    *)
(***************************************************************************)
\* y is what the claim says into_owned gives for x of type ty: a Vec of the
\* same length converted element by element, None for None, Some for Some,
\* Ok for Ok, Err for Err, each payload converted, and a primitive itself
RECURSIVE ShapePreserved(_, _, _)
ShapePreserved(ty, x, y) ==
    LET impl == ImplFor(ty) IN
    CASE impl = "primitive" -> y = x
      [] impl = "Vec" ->
            /\ y.tag = "Vec"
            /\ Len(y.elems) = Len(x.elems)
            /\ \A i \in 1..Len(x.elems) :
                  /\ y.elems[i] = into_owned(TypeArgOf(ty, 1), x.elems[i])
                  /\ ShapePreserved(TypeArgOf(ty, 1), x.elems[i], y.elems[i])
      [] impl = "Option" ->
            IF x.tag = "None" THEN y = NoneValue
            ELSE /\ y.tag = "Some"
                 /\ y.x = into_owned(TypeArgOf(ty, 1), x.x)
                 /\ ShapePreserved(TypeArgOf(ty, 1), x.x, y.x)
      [] impl = "Result" ->
            LET side == IF x.tag = "Ok" THEN 1 ELSE 2 IN
            /\ y.tag = x.tag
            /\ y.x = into_owned(TypeArgOf(ty, side), x.x)
            /\ ShapePreserved(TypeArgOf(ty, side), x.x, y.x)
      [] OTHER -> TRUE

\* C19: every converted field whose type is a Vec, an Option, a Result or a
\* primitive, nested to any depth, keeps its shape under into_owned: a Vec
\* keeps its length and order, None stays None and Some stays Some, Ok
\* stays Ok and Err stays Err, with the payloads converted, and a primitive
\* is returned as it is.
C19_ContainersPreserveShape ==
    (Called /\ IsSchema /\ NumLifetimes >= 1) =>
        LET decl == DeclFieldsOf(values[1]) IN
        \A m \in ConvertedMembers(values[1]) :
            ShapePreserved(DeclType(decl, m), values[1].fields[m], values[2].fields[m])

C19_Witness ==
    /\ Called
    /\ input.fields = FieldsOf("Unnamed", <<TyResultErrCow, TyVecOptionCow>>)
    /\ values[1].fields["0"] = ErrValue(CowValue("Borrowed", "world"))
    /\ values[1].fields["1"]
          = VecValue(<< SomeValue(CowValue("Borrowed", "world")), NoneValue >>)
    /\ values[2].fields["0"] = ErrValue(CowValue("Owned", "world"))
    /\ values[2].fields["1"]
          = VecValue(<< SomeValue(CowValue("Owned", "world")), NoneValue >>)

(***************************************************************************)
(* Claims about the order of the checks of #[derive(Poly)]                 *)
(***************************************************************************)
\* the first violation of the declaration in the order union, attributes,
\* lifetimes, name: the check that finds it, where it is, and the checks
\* run up to it
FirstViolation ==
    LET attrs == input.attrs
        named == {k \in 1..Len(attrs) :
                    /\ attrs[k].path = "poly"
                    /\ attrs[k].meta = "List"
                    /\ attrs[k].nested # <<>>}
        last == CHOOSE k \in named : \A h \in named : h <= k
        \* the literal of the last name option, when every attribute parses
        LastNameSpan == Span("lit", last, Len(attrs[last].nested))
    IN
    CASE input.data = "union" ->
            [check |-> "union", span |-> UnionToken, checks |-> <<"union">>]
      [] input.data # "union" /\ \E i \in 1..Len(attrs) : Misused(attrs[i]) ->
            [check |-> "attrs", span |-> FirstMisuse(attrs), checks |-> <<"union", "attrs">>]
      [] OTHER ->
            IF NumLifetimes > 1
            THEN [check |-> "lifetimes", span |-> SecondLifetime,
                  checks |-> <<"union", "attrs", "lifetimes">>]
            ELSE IF NumLifetimes = 0 /\ NameOptions(attrs, 1) # <<>>
            THEN [check |-> "name", span |-> LastNameSpan,
                  checks |-> <<"union", "attrs", "lifetimes", "name">>]
            ELSE [check |-> "none", span |-> NoSpan,
                  checks |-> <<"union", "attrs", "lifetimes", "name">>]

MessageOf(check, span) ==
    CASE check = "union" -> "Poly derive does not support unions"
      [] check = "attrs" -> IF span.kind = "lit" THEN "expected string literal"
                            ELSE "unsupported poly attribute"
      [] check = "lifetimes" -> "Poly derive supports at most one lifetime parameter"
      [] check = "name" ->
            "poly(name = \"...\") is only valid for types with a single lifetime parameter"
      [] OTHER -> ""

\* C20: #[derive(Poly)] reports one error per declaration, that of the
\* first violation in the order union, attribute that does not parse, more
\* than one lifetime, name without a lifetime; the checks after the failing
\* one are not run, and a declaration with no violation is expanded.
C20_FirstViolationOnly ==
    poly.done =>
        LET first == FirstViolation IN
        /\ poly.ok = (first.check = "none")
        /\ poly.span = first.span
        /\ poly.message = MessageOf(first.check, first.span)
        /\ poly.checks = first.checks
        /\ ~poly.ok =>
              /\ Len(poly.tokens) = 1
              /\ poly.tokens[1] = CompileError(first.span, poly.message)

C20_Witness ==
    /\ poly.done
    /\ input.data = "struct"
    /\ NumLifetimes = 2
    /\ input.attrs = << Attribute("poly", "List", << NestedMeta("rename", "None", "") >>) >>
    /\ poly.span = Span("meta_path", 1, 1)
    /\ poly.message = "unsupported poly attribute"
    /\ poly.checks = <<"union", "attrs">>
    /\ Len(poly.tokens) = 1
====
